---- MODULE Spec2Model ----
(***************************************************************************)
(* AuditAI frontend: the Recommendations page (recommendations/page.js     *)
(* with ActionItemCard, FilterBar, AppliedLog, SummaryStats), the Audit    *)
(* Results page (AuditResultsPage with AuditRecommendations) and the       *)
(* dashboard's audit trigger, modelled as state machines over the React    *)
(* state of each page.  One action is one event handler or one timer       *)
(* continuation; React applies the state updates of a handler in one       *)
(* render, so each action is atomic.                                       *)
(***************************************************************************)
EXTENDS Integers, Sequences, FiniteSets, TLC

\* ---------------------------------------------------------------- bounds
\* number of ActionItemCard.handleApply calls waiting in their 800 ms delay
MaxInFlight == 2
\* last calendar day (of December 2025) the clock may reach
MaxDay == 10
\* longest applied list explored (the list starts with two entries)
MaxApplied == 4
\* number of alert() dialogs recorded
MaxAlerts == 3

\* first day of the model's clock: the day of the mock data's last audit
StartDay == 9

\* ------------------------------------------------------------- mock data
initialRecommendations ==
    << [id |-> "rec_1", type |-> "Compute",  savings |-> 150, risk |-> "Low",    difficulty |-> "Easy"],
       [id |-> "rec_2", type |-> "Database", savings |-> 320, risk |-> "Medium", difficulty |-> "Medium"],
       [id |-> "rec_3", type |-> "Storage",  savings |-> 80,  risk |-> "Low",    difficulty |-> "Easy"],
       [id |-> "rec_4", type |-> "Network",  savings |-> 15,  risk |-> "Low",    difficulty |-> "Easy"],
       [id |-> "rec_5", type |-> "Compute",  savings |-> 450, risk |-> "High",   difficulty |-> "Hard"] >>

\* toLocaleDateString("en-US", {month: "short", day: "numeric", year: "numeric"})
\* of a day of December 2025, as the three parts of "Dec 8, 2025"
FormatDate(day) == << "Dec", day, 2025 >>

initialApplied ==
    << [id |-> "app_1", type |-> "Database", risk |-> "Low", savings |-> 250, appliedDate |-> FormatDate(8)],
       [id |-> "app_2", type |-> "Compute",  risk |-> "Low", savings |-> 80,  appliedDate |-> FormatDate(7)] >>

RecIds == { initialRecommendations[i].id : i \in DOMAIN initialRecommendations }

RiskOptions == { "all", "Low", "Medium", "High" }
StatusOptions == { "all", "pending" }
SortOptions == { "savings-desc", "savings-asc", "risk-desc", "risk-asc" }

\* ------------------------------------------------------- sequence helpers
Ids(s) == { s[i].id : i \in DOMAIN s }

RECURSIVE RemoveId(_, _)
\* prev.filter(r => r.id !== id)
RemoveId(s, id) ==
    IF s = << >> THEN << >>
    ELSE IF Head(s).id # id THEN << Head(s) >> \o RemoveId(Tail(s), id)
         ELSE RemoveId(Tail(s), id)

RECURSIVE FilterByRisk(_, _)
\* result.filter(item => item.risk === filterSeverity)
FilterByRisk(s, sev) ==
    IF s = << >> THEN << >>
    ELSE IF Head(s).risk = sev THEN << Head(s) >> \o FilterByRisk(Tail(s), sev)
         ELSE FilterByRisk(Tail(s), sev)

\* recommendations.find(r => r.id === id) returns an item (is not undefined)
Found(s, id) == \E i \in DOMAIN s : s[i].id = id

\* recommendations.find(r => r.id === id), the first match, when there is one
Find(s, id) ==
    s[CHOOSE i \in DOMAIN s : s[i].id = id /\ \A j \in 1..(i-1) : s[j].id # id]

\* const riskOrder = { "High": 3, "Medium": 2, "Low": 1 }
riskOrder(risk) == CASE risk = "High" -> 3 [] risk = "Medium" -> 2 [] risk = "Low" -> 1

\* Compare with the operands of "savings-desc" the wrong way round
Compare_savingsSwapped(sort, a, b) ==
    CASE sort = "savings-desc" -> a.savings - b.savings
      [] sort = "savings-asc"  -> a.savings - b.savings
      [] sort = "risk-desc"    -> riskOrder(b.risk) - riskOrder(a.risk)
      [] sort = "risk-asc"     -> riskOrder(a.risk) - riskOrder(b.risk)
      [] OTHER                 -> 0

\* the comparator handed to result.sort
Compare(sort, a, b) ==
    CASE sort = "savings-desc" -> b.savings - a.savings
      [] sort = "savings-asc"  -> a.savings - b.savings
      [] sort = "risk-desc"    -> riskOrder(b.risk) - riskOrder(a.risk)
      [] sort = "risk-asc"     -> riskOrder(a.risk) - riskOrder(b.risk)
      [] OTHER                 -> 0

RECURSIVE InsertSorted(_, _, _)
\* x goes before the first element that the comparator orders after x
InsertSorted(sorted, x, sort) ==
    IF sorted = << >> THEN << x >>
    ELSE IF Compare(sort, Head(sorted), x) > 0 THEN << x >> \o sorted
         ELSE << Head(sorted) >> \o InsertSorted(Tail(sorted), x, sort)

RECURSIVE SortFrom(_, _, _)
SortFrom(sorted, rest, sort) ==
    IF rest = << >> THEN sorted
    ELSE SortFrom(InsertSorted(sorted, Head(rest), sort), Tail(rest), sort)

\* Array.prototype.sort(compare): a stable sort
Sort(s, sort) == SortFrom(<< >>, s, sort)

\* the filteredRecommendations memo
FilteredOf(recs, sev, sort) ==
    Sort(IF sev # "all" THEN FilterByRisk(recs, sev) ELSE recs, sort)

VARIABLES
    recommendations,   \* RecommendationsPage state: the pending list
    appliedItems,      \* RecommendationsPage state: the applied list
    isRefreshing,      \* RecommendationsPage state
    filterStatus,      \* RecommendationsPage state
    filterSeverity,    \* RecommendationsPage state
    sortBy,            \* RecommendationsPage state
    isApplying,        \* ActionItemCard state of each mounted card, by item id
    applyTimers,       \* ActionItemCard.handleApply calls in their 800 ms wait
    today,             \* the day new Date() returns
    status,            \* RecommendationItem state of each audit recommendation
    auditIsRefreshing, \* AuditResultsPage state
    alerts,            \* the alert() dialogs shown so far
    data,              \* DashboardPage state ("null" until loaded)
    loading,           \* DashboardPage state
    dashIsRefreshing,  \* DashboardPage state
    fetching,          \* fetchData calls in their 1500 ms wait
    effectRan,         \* whether the mount effect of DashboardPage has run
    MOCK_RESOURCES,    \* ResourcesPage: the generated resource list
    searchTerm,        \* ResourcesPage state
    typeFilter,        \* ResourcesPage state
    statusFilter,      \* ResourcesPage state
    sortConfig,        \* ResourcesPage state
    currentPage,       \* ResourcesPage state
    email,             \* LoginPage state
    password,          \* LoginPage state
    isLoading,         \* LoginPage state
    error,             \* LoginPage state
    signInTimers,      \* handleEmailSignIn callbacks in their 1500 ms wait
    consoleLog,        \* the sign-in results written with console.log
    keys,              \* ApiKeysManager state: the list of API keys
    isGenerating,      \* ApiKeysManager state
    generateTimers,    \* handleGenerate calls in their 800 ms wait
    now                \* the clock Date.now() reads

recVars == << recommendations, appliedItems, isRefreshing, filterStatus,
              filterSeverity, sortBy, isApplying, applyTimers, today >>
auditVars == << status, auditIsRefreshing, alerts, data, loading,
               dashIsRefreshing, fetching, effectRan >>
resVars == << MOCK_RESOURCES, searchTerm, typeFilter, statusFilter, sortConfig,
             currentPage >>
authVars == << email, password, isLoading, error, signInTimers, consoleLog >>
keyVars == << keys, isGenerating, generateTimers, now >>
pageVars == << resVars, authVars, keyVars >>
vars == << recVars, auditVars, pageVars >>

filteredRecommendations == FilteredOf(recommendations, filterSeverity, sortBy)

\* ------------------------------------------------ Recommendations page
\* list.reduce((acc, curr) => acc + curr.savings, 0)
RECURSIVE SumSavings(_)
SumSavings(list) ==
    IF list = << >> THEN 0 ELSE Head(list).savings + SumSavings(Tail(list))

\* stats with totalSavings the total potential from the start
stats_fromStart ==
    [totalSavings |-> SumSavings(initialRecommendations),
     pendingCount |-> Len(recommendations),
     completedCount |-> Len(appliedItems)]

\* the stats memo
stats ==
    [totalSavings |-> SumSavings(recommendations),
     pendingCount |-> Len(recommendations),
     completedCount |-> Len(appliedItems)]

\* the values of the three cards of SummaryStats, as the parts of
\* "$<n>/mo" and "<n> actions"
SummaryStats ==
    [TotalPotentialSavings |-> << "$", stats.totalSavings, "/mo" >>,
     PendingActions |-> << stats.pendingCount, " actions" >>,
     CompletedActions |-> << stats.completedCount, " actions" >>]

\* the ActionItemCards after a render: a card that stays mounted keeps its
\* state, a card that is mounted anew starts with isApplying = false
Cards(mounted) ==
    [id \in mounted |-> IF id \in DOMAIN isApplying THEN isApplying[id] ELSE FALSE]

\* a waiting handleApply belongs to the card instance that started it; once
\* that card is unmounted its setIsApplying no longer reaches any card
Timers(timers, mounted) ==
    [i \in DOMAIN timers |-> [timers[i] EXCEPT !.live = @ /\ timers[i].id \in mounted]]

\* PrependApplied that stamps every entry with the new entry's date
PrependApplied_restamp(prev, newItem) ==
    << newItem >> \o [i \in DOMAIN prev |->
                        [prev[i] EXCEPT !.appliedDate = newItem.appliedDate]]

\* setAppliedItems(prev => [newItem, ...prev])
PrependApplied(prev, newItem) == << newItem >> \o prev

\* { ...itemToApply, appliedDate: new Date().toLocaleDateString(...) }
NewItem(itemToApply, day) ==
    [f \in DOMAIN itemToApply \cup {"appliedDate"} |->
        IF f = "appliedDate" THEN FormatDate(day) ELSE itemToApply[f]]

\* the ids of the cards the page renders for a pending list and a risk filter
Mounted(recs, sev) == Ids(FilteredOf(recs, sev, sortBy))

\* ApplyOffered with the Apply buttons disabled during a refresh
ApplyOffered_notWhileRefreshing(id) ==
    id \in DOMAIN isApplying /\ ~isApplying[id] /\ ~isRefreshing

\* the card of the recommendation is rendered and its Apply button is not
\* disabled: disabled={isApplying}
ApplyOffered(id) == id \in DOMAIN isApplying /\ ~isApplying[id]

\* ActionItemCard.handleApply up to its await: the Apply button of a rendered
\* card is clicked (the button is disabled while isApplying); the onApply
\* the continuation will call is the page's handleApply of this render, which
\* closes over this render's recommendations
ClickApply(id) ==
    /\ ApplyOffered(id)
    /\ Len(applyTimers) < MaxInFlight
    /\ Len(appliedItems) + Len(applyTimers) < MaxApplied
    /\ isApplying' = [isApplying EXCEPT ![id] = TRUE]
    /\ applyTimers' = Append(applyTimers,
                             [id |-> id, snapshot |-> recommendations, live |-> TRUE])
    /\ UNCHANGED << recommendations, appliedItems, isRefreshing, filterStatus,
                    filterSeverity, sortBy, today, auditVars, pageVars >>

\* ApplyTimerFire with setRecommendations(recommendations.filter(...)) on the
\* pending list the handler closed over, not on the current one
ApplyTimerFire_fromSnapshot ==
    /\ applyTimers # << >>
    /\ LET t == Head(applyTimers)
           found == Found(t.snapshot, t.id)
           recs2 == IF found THEN RemoveId(t.snapshot, t.id) ELSE recommendations
           applied2 == IF found
                       THEN PrependApplied(appliedItems, NewItem(Find(t.snapshot, t.id), today))
                       ELSE appliedItems
           mounted == Mounted(recs2, filterSeverity)
           cards2 == Cards(mounted)
       IN /\ recommendations' = recs2
          /\ appliedItems' = applied2
          /\ isApplying' = [id \in mounted |->
                              IF id = t.id /\ t.live THEN FALSE ELSE cards2[id]]
          /\ applyTimers' = Timers(Tail(applyTimers), mounted)
    /\ UNCHANGED << isRefreshing, filterStatus, filterSeverity, sortBy, today, auditVars, pageVars >>

\* RecommendationsPage.handleApply(id) as called by the continuation of
\* ActionItemCard.handleApply, followed by its setIsApplying(false).  The
\* delays are all 800 ms, so the continuations run in the order of the clicks.
ApplyTimerFire ==
    /\ applyTimers # << >>
    /\ LET t == Head(applyTimers)
           found == Found(t.snapshot, t.id)
           recs2 == IF found THEN RemoveId(recommendations, t.id) ELSE recommendations
           applied2 == IF found
                       THEN PrependApplied(appliedItems, NewItem(Find(t.snapshot, t.id), today))
                       ELSE appliedItems
           mounted == Mounted(recs2, filterSeverity)
           cards2 == Cards(mounted)
       IN /\ recommendations' = recs2
          /\ appliedItems' = applied2
          /\ isApplying' = [id \in mounted |->
                              IF id = t.id /\ t.live THEN FALSE ELSE cards2[id]]
          /\ applyTimers' = Timers(Tail(applyTimers), mounted)
    /\ UNCHANGED << isRefreshing, filterStatus, filterSeverity, sortBy, today, auditVars, pageVars >>

\* handleRefresh up to its await (the refresh button is disabled while
\* isRefreshing)
HandleRefreshStart ==
    /\ ~isRefreshing
    /\ isRefreshing' = TRUE
    /\ UNCHANGED << recommendations, appliedItems, filterStatus, filterSeverity,
                    sortBy, isApplying, applyTimers, today, auditVars, pageVars >>

\* HandleRefreshDone that loads the initial list again
HandleRefreshDone_refetch ==
    /\ isRefreshing
    /\ isRefreshing' = FALSE
    /\ recommendations' = initialRecommendations
    /\ isApplying' = Cards(Mounted(initialRecommendations, filterSeverity))
    /\ applyTimers' = Timers(applyTimers, Mounted(initialRecommendations, filterSeverity))
    /\ UNCHANGED << appliedItems, filterStatus, filterSeverity, sortBy, today, auditVars, pageVars >>

\* handleRefresh after its 1000 ms await: nothing is fetched again
HandleRefreshDone ==
    /\ isRefreshing
    /\ isRefreshing' = FALSE
    /\ UNCHANGED << recommendations, appliedItems, filterStatus, filterSeverity,
                    sortBy, isApplying, applyTimers, today, auditVars, pageVars >>

\* FilterBar: the Risk select changes; cards filtered out are unmounted
SetFilterSeverity(v) ==
    /\ v # filterSeverity
    /\ filterSeverity' = v
    /\ isApplying' = Cards(Mounted(recommendations, v))
    /\ applyTimers' = Timers(applyTimers, Mounted(recommendations, v))
    /\ UNCHANGED << recommendations, appliedItems, isRefreshing, filterStatus,
                    sortBy, today, auditVars, pageVars >>

\* FilterBar: the Status select changes
SetFilterStatus(v) ==
    /\ v # filterStatus
    /\ filterStatus' = v
    /\ UNCHANGED << recommendations, appliedItems, isRefreshing, filterSeverity,
                    sortBy, isApplying, applyTimers, today, auditVars, pageVars >>

\* FilterBar: the Sort select changes; the cards are keyed by id and stay
SetSortBy(v) ==
    /\ v # sortBy
    /\ sortBy' = v
    /\ UNCHANGED << recommendations, appliedItems, isRefreshing, filterStatus,
                    filterSeverity, isApplying, applyTimers, today, auditVars, pageVars >>

\* midnight passes
NextDay ==
    /\ today < MaxDay
    /\ today' = today + 1
    /\ UNCHANGED << recommendations, appliedItems, isRefreshing, filterStatus,
                    filterSeverity, sortBy, isApplying, applyTimers, auditVars, pageVars >>

\* ---------------------------------------------------- Audit Results page
\* RecommendationItem: the Apply button, rendered only while status is pending
ApplyItem(id) ==
    /\ status[id] = "pending"
    /\ status' = [status EXCEPT ![id] = "applied"]
    /\ UNCHANGED << recVars, pageVars, auditIsRefreshing, alerts, data, loading,
                    dashIsRefreshing, fetching, effectRan >>

\* DismissItem with the Dismiss button rendered in every status
DismissItem_anyStatus(id) ==
    /\ status' = [status EXCEPT ![id] = "dismissed"]
    /\ UNCHANGED << recVars, pageVars, auditIsRefreshing, alerts, data, loading,
                    dashIsRefreshing, fetching, effectRan >>

\* RecommendationItem: the Dismiss button, rendered only while status is pending
DismissItem(id) ==
    /\ status[id] = "pending"
    /\ status' = [status EXCEPT ![id] = "dismissed"]
    /\ UNCHANGED << recVars, pageVars, auditIsRefreshing, alerts, data, loading,
                    dashIsRefreshing, fetching, effectRan >>

\* AuditResultsPage.handleRefresh up to its await
AuditRefreshStart ==
    /\ ~auditIsRefreshing
    /\ auditIsRefreshing' = TRUE
    /\ UNCHANGED << recVars, pageVars, status, alerts, data, loading, dashIsRefreshing,
                    fetching, effectRan >>

\* AuditResultsPage.handleRefresh after its 1500 ms await
AuditRefreshDone ==
    /\ auditIsRefreshing
    /\ auditIsRefreshing' = FALSE
    /\ UNCHANGED << recVars, pageVars, status, alerts, data, loading, dashIsRefreshing,
                    fetching, effectRan >>

\* AuditResultsPage.handleNewAudit: the New Audit button
HandleNewAudit ==
    /\ Len(alerts) < MaxAlerts
    /\ alerts' = Append(alerts, "Starting new audit scan...")
    /\ UNCHANGED << recVars, pageVars, status, auditIsRefreshing, data, loading,
                    dashIsRefreshing, fetching, effectRan >>

\* ------------------------------------------------------------ Dashboard
\* fetchData up to its await
FetchStart ==
    /\ loading' = TRUE
    /\ dashIsRefreshing' = TRUE
    /\ fetching' = fetching + 1
    /\ UNCHANGED << recVars, pageVars, status, auditIsRefreshing, alerts, data >>

\* useEffect(() => { fetchData(); }, [fetchData]) after the first render
MountEffect ==
    /\ ~effectRan
    /\ effectRan' = TRUE
    /\ FetchStart

\* the refresh button, rendered once loading is false, disabled while
\* isRefreshing
ClickRefresh ==
    /\ ~loading
    /\ ~dashIsRefreshing
    /\ UNCHANGED effectRan
    /\ FetchStart

\* FetchDone that does not store the data it fetched
FetchDone_noData ==
    /\ fetching > 0
    /\ fetching' = fetching - 1
    /\ loading' = FALSE
    /\ dashIsRefreshing' = FALSE
    /\ UNCHANGED << recVars, pageVars, status, auditIsRefreshing, alerts, effectRan, data >>

\* the metric cards and the RecentAuditsTable are rendered: the page returns
\* the loading screen instead while loading
CardsRendered == ~loading

\* fetchData after its 1500 ms await
FetchDone ==
    /\ fetching > 0
    /\ fetching' = fetching - 1
    /\ data' = "initialMockData"
    /\ loading' = FALSE
    /\ dashIsRefreshing' = FALSE
    /\ UNCHANGED << recVars, pageVars, status, auditIsRefreshing, alerts, effectRan >>

\* handleRunAudit: the Run Audit Now button, rendered once loading is false
HandleRunAudit ==
    /\ ~loading
    /\ Len(alerts) < MaxAlerts
    /\ alerts' = Append(alerts,
                        "Audit has been successfully triggered! Results will appear soon.")
    /\ UNCHANGED << recVars, pageVars, status, auditIsRefreshing, data, loading,
                    dashIsRefreshing, fetching, effectRan >>

\* the dashboard data the mock API returns: the time of the last audit and
\* the ids of the recent audits
initialMockData ==
    [last_audit |-> "2025-12-09T10:30:00Z",
     recent_audits |-> << "audit_1", "audit_2", "audit_3", "audit_4" >>]

\* the audits RecentAuditsTable lists and the last_audit the dashboard shows
DataShown ==
    IF data = "null" THEN [last_audit |-> "null", recent_audits |-> << >>]
    ELSE initialMockData

\* ------------------------------------------------------- Resources page
\* generateMockResources(65)
ResourceCount == 65

\* const itemsPerPage = 20
itemsPerPage == 20

\* the outcomes of Math.random the model draws from
Seeds == 0 .. 1

\* a string is the sequence of its characters
Digit == << "0", "1", "2", "3", "4", "5", "6", "7", "8", "9" >>
UpperCase == << "A", "B", "C", "D", "E", "F", "G", "H", "I", "J", "K", "L", "M",
               "N", "O", "P", "Q", "R", "S", "T", "U", "V", "W", "X", "Y", "Z" >>
LowerCase == << "a", "b", "c", "d", "e", "f", "g", "h", "i", "j", "k", "l", "m",
               "n", "o", "p", "q", "r", "s", "t", "u", "v", "w", "x", "y", "z" >>

IndexIn(seq, c) == CHOOSE i \in DOMAIN seq : seq[i] = c

Chars ==
    {LowerCase[i] : i \in DOMAIN LowerCase} \cup {UpperCase[i] : i \in DOMAIN UpperCase}
        \cup {Digit[i] : i \in DOMAIN Digit} \cup {"-"}

\* the UTF-16 code unit of a character, which < and > on strings compare
CharCode ==
    [c \in Chars |->
        IF \E i \in DOMAIN LowerCase : LowerCase[i] = c THEN 96 + IndexIn(LowerCase, c)
        ELSE IF \E i \in DOMAIN UpperCase : UpperCase[i] = c THEN 64 + IndexIn(UpperCase, c)
        ELSE IF \E i \in DOMAIN Digit : Digit[i] = c THEN 47 + IndexIn(Digit, c)
        ELSE 45]

\* the lower-case form of a character
LowerOf ==
    [c \in Chars |->
        IF \E k \in DOMAIN UpperCase : UpperCase[k] = c
        THEN LowerCase[IndexIn(UpperCase, c)]
        ELSE c]

\* a sequence given as a function, with its elements computed once
Seq1(f) == SubSeq(f, 1, Len(f))

\* String.prototype.toLowerCase
toLowerCase(str) == Seq1([i \in DOMAIN str |-> LowerOf[str[i]]])

\* String.prototype.includes
includes(str, part) ==
    \E k \in 0 .. (Len(str) - Len(part)) : SubSeq(str, k + 1, k + Len(part)) = part

\* a < b on two strings: the code units at the first position where they
\* differ decide, and a proper prefix is less
StringLess(a, b) ==
    LET both == IF Len(a) < Len(b) THEN Len(a) ELSE Len(b)
        differ == { i \in 1 .. both : a[i] # b[i] }
    IN IF differ = { } THEN Len(a) < Len(b)
       ELSE LET first == CHOOSE i \in differ : \A j \in differ : i <= j
            IN CharCode[a[first]] < CharCode[b[first]]

\* `${n}` for a number n >= 0
RECURSIVE NumberToString(_)
NumberToString(n) ==
    IF n < 10 THEN << Digit[n + 1] >>
    ELSE NumberToString(n \div 10) \o << Digit[(n % 10) + 1] >>

types ==
    << << "C", "o", "m", "p", "u", "t", "e" >>,
       << "S", "t", "o", "r", "a", "g", "e" >>,
       << "D", "a", "t", "a", "b", "a", "s", "e" >>,
       << "N", "e", "t", "w", "o", "r", "k" >> >>
statuses ==
    << << "R", "u", "n", "n", "i", "n", "g" >>,
       << "I", "d", "l", "e" >>,
       << "S", "t", "o", "p", "p", "e", "d" >>,
       << "E", "r", "r", "o", "r" >> >>
zones ==
    << << "u", "s", "-", "e", "a", "s", "t", "-", "1", "a" >>,
       << "u", "s", "-", "e", "a", "s", "t", "-", "1", "b" >>,
       << "u", "s", "-", "w", "e", "s", "t", "-", "2", "a" >>,
       << "e", "u", "-", "c", "e", "n", "t", "r", "a", "l", "-", "1" >> >>
All == << "A", "l", "l" >>

\* Math.floor(Math.random() * n) for the k-th draw of resource i
Random(seed, i, k, n) == ((seed + 1) * (i * i + 7 * i + 3) + (5 + 2 * seed) * k + i \div 3) % n

generateMockResources(count, seed) ==
    Seq1([j \in 1 .. count |->
        LET i == j - 1
            type == types[Random(seed, i, 0, Len(types)) + 1]
            st == statuses[Random(seed, i, 1, Len(statuses)) + 1]
        IN [id |-> << "r", "e", "s", "-" >> \o NumberToString(i + 1),
            name |-> toLowerCase(type) \o << "-", "i", "n", "s", "t", "a", "n", "c", "e", "-" >>
                       \o NumberToString(i + 100),
            type |-> type,
            status |-> st,
            zone |-> zones[Random(seed, i, 2, Len(zones)) + 1],
            cpu_utilization |-> IF st = statuses[1] THEN Random(seed, i, 3, 80) + 10 ELSE 0,
            memory_utilization |-> IF st = statuses[1] THEN Random(seed, i, 4, 90) + 10 ELSE 0,
            cost |-> Random(seed, i, 5, 500) + 50]])

\* the filter callback of filteredResources
Matches(resource, search, type, st) ==
    LET matchesSearch == \/ includes(toLowerCase(resource.name), toLowerCase(search))
                         \/ includes(toLowerCase(resource.id), toLowerCase(search))
        matchesType == type = All \/ resource.type = type
        matchesStatus == st = All \/ resource.status = st
    IN matchesSearch /\ matchesType /\ matchesStatus

\* Array.prototype.filter: the elements kept, in their order
SelectFrom(list, search, type, st) ==
    LET kept == {i \in DOMAIN list : Matches(list[i], search, type, st)}
        nth == [k \in 1 .. Cardinality(kept) |->
                  CHOOSE i \in kept : Cardinality({j \in kept : j <= i}) = k]
    IN Seq1([k \in 1 .. Cardinality(kept) |-> list[nth[k]]])

FilteredResourcesOf(search, type, st) == SelectFrom(MOCK_RESOURCES, search, type, st)

filteredResources == FilteredResourcesOf(searchTerm, typeFilter, statusFilter)

\* a[sortConfig.key] < b[sortConfig.key]: a key that is no field of the
\* resource reads undefined, and undefined < undefined is false
KeyLess(a, b, key) ==
    IF key \notin DOMAIN a THEN FALSE
    ELSE IF key = "cost" THEN a[key] < b[key]
    ELSE StringLess(a[key], b[key])

\* the comparator given to sortableItems.sort
KeyCompare(a, b, config) ==
    IF KeyLess(a, b, config.key) THEN (IF config.direction = "asc" THEN -1 ELSE 1)
    ELSE IF KeyLess(b, a, config.key) THEN (IF config.direction = "asc" THEN 1 ELSE -1)
    ELSE 0

\* Array.prototype.sort with a comparator: the sort is stable, so an element
\* comes after the elements that compare below it and after the earlier
\* elements that compare equal to it
SortResources(list, config) ==
    LET n == Len(list)
        place == Seq1([i \in 1 .. n |->
                    Cardinality({j \in 1 .. n :
                        \/ KeyCompare(list[j], list[i], config) < 0
                        \/ j < i /\ KeyCompare(list[j], list[i], config) = 0}) + 1])
    IN Seq1([k \in 1 .. n |-> list[CHOOSE i \in 1 .. n : place[i] = k]])

sortedResources == SortResources(filteredResources, sortConfig)

\* Math.ceil(sortedResources.length / itemsPerPage); sorting keeps the length
TotalPagesOf(list) == (Len(list) + itemsPerPage - 1) \div itemsPerPage

totalPages == TotalPagesOf(filteredResources)

\* Array.prototype.slice(start, end) with start possibly negative
Slice(list, start, end) ==
    LET n == Len(list)
        from == IF start < 0 THEN (IF n + start < 0 THEN 0 ELSE n + start)
                ELSE IF start > n THEN n ELSE start
        to == IF end < 0 THEN (IF n + end < 0 THEN 0 ELSE n + end)
              ELSE IF end > n THEN n ELSE end
    IN IF from >= to THEN << >> ELSE SubSeq(list, from + 1, to)

paginatedResources ==
    Slice(sortedResources, (currentPage - 1) * itemsPerPage, currentPage * itemsPerPage)

\* the search terms typed into the search box
SearchTerms ==
    { << >>,
      << "c", "o", "m", "p", "u", "t", "e" >>,
      << "D", "A", "T", "A" >>,
      << "r", "e", "s", "-", "6" >>,
      << "z", "z", "z" >> }

\* the search input's onChange
SetSearchTerm(v) ==
    /\ v # searchTerm
    /\ searchTerm' = v
    /\ UNCHANGED << recVars, auditVars, authVars, keyVars, MOCK_RESOURCES, typeFilter,
                    statusFilter, sortConfig, currentPage >>

\* the type select's onChange
SetTypeFilter(v) ==
    /\ v # typeFilter
    /\ typeFilter' = v
    /\ currentPage' = 1
    /\ UNCHANGED << recVars, auditVars, authVars, keyVars, MOCK_RESOURCES, searchTerm,
                    statusFilter, sortConfig >>

\* the status select's onChange
SetStatusFilter(v) ==
    /\ v # statusFilter
    /\ statusFilter' = v
    /\ currentPage' = 1
    /\ UNCHANGED << recVars, auditVars, authVars, keyVars, MOCK_RESOURCES, searchTerm,
                    typeFilter, sortConfig >>

\* the column headers and header.toLowerCase() of each
Headers == << "Name", "Type", "Status", "Zone", "Cost", "Utilization" >>
HeaderKey ==
    [Name |-> "name", Type |-> "type", Status |-> "status", Zone |-> "zone",
     Cost |-> "cost", Utilization |-> "utilization"]

\* handleSort(key)
handleSort(key) ==
    /\ sortConfig' = [key |-> key,
                      direction |-> IF sortConfig.key = key /\ sortConfig.direction = "asc"
                                    THEN "desc" ELSE "asc"]
    /\ UNCHANGED << recVars, auditVars, authVars, keyVars, MOCK_RESOURCES, searchTerm,
                    typeFilter, statusFilter, currentPage >>

\* a click on a column header
ClickHeader(header) == handleSort(HeaderKey[header])

\* the previous-page button, disabled on page 1
PrevPage ==
    /\ currentPage # 1
    /\ currentPage' = (IF currentPage - 1 > 1 THEN currentPage - 1 ELSE 1)
    /\ UNCHANGED << recVars, auditVars, authVars, keyVars, MOCK_RESOURCES, searchTerm,
                    typeFilter, statusFilter, sortConfig >>

\* the next-page button, disabled on page totalPages
NextPage ==
    /\ currentPage # totalPages
    /\ currentPage' = (IF currentPage + 1 < totalPages THEN currentPage + 1 ELSE totalPages)
    /\ UNCHANGED << recVars, auditVars, authVars, keyVars, MOCK_RESOURCES, searchTerm,
                    typeFilter, statusFilter, sortConfig >>

\* ------------------------------------------------------------ Login page
MaxSignIns == 2

Emails == { "", "user@example.com", "admin@example.com" }
Passwords == { "", "password123", "letmein", "Password123" }

\* the email input's onChange
SetEmail(v) ==
    /\ v # email
    /\ email' = v
    /\ error' = ""
    /\ UNCHANGED << recVars, auditVars, resVars, keyVars, password, isLoading, signInTimers,
                    consoleLog >>

\* the password input's onChange
SetPassword(v) ==
    /\ v # password
    /\ password' = v
    /\ error' = ""
    /\ UNCHANGED << recVars, auditVars, resVars, keyVars, email, isLoading, signInTimers,
                    consoleLog >>

\* the form is submitted through a button of the form that is not disabled:
\* the Sign In button (disabled while isLoading) or the button around the X
\* of the error banner, which has no type and so submits the form too, and is
\* rendered while error is not empty.  The X's own setError("") is
\* overwritten by the handler in the same event.
CanSubmit == ~isLoading \/ error # ""

\* handleEmailSignIn up to its setTimeout; the callback keeps the email and
\* password of this render
handleEmailSignIn ==
    /\ CanSubmit
    /\ IF email = "" \/ password = ""
       THEN /\ error' = "Please enter both email and password"
            /\ UNCHANGED << isLoading, signInTimers >>
       ELSE /\ Len(consoleLog) + Len(signInTimers) < MaxSignIns
            /\ error' = ""
            /\ isLoading' = TRUE
            /\ signInTimers' = Append(signInTimers, [email |-> email, password |-> password])
    /\ UNCHANGED << recVars, auditVars, resVars, keyVars, email, password, consoleLog >>

\* SignInResult that accepts every password
SignInResult_acceptAll(pw) == "Login successful! Redirecting..."

\* the outcome of the dummy check on the password the callback kept
SignInResult(pw) ==
    IF pw = "password123" THEN "Login successful! Redirecting..."
    ELSE "Invalid credentials. Please try again."

\* the setTimeout callback of handleEmailSignIn, 1500 ms later
SignInTimerFire ==
    /\ signInTimers # << >>
    /\ LET t == Head(signInTimers)
           result == SignInResult(t.password)
       IN /\ signInTimers' = Tail(signInTimers)
          /\ isLoading' = FALSE
          /\ consoleLog' = Append(consoleLog, [attempt |-> t, result |-> result])
          /\ error' = IF result = "Login successful! Redirecting..." THEN error ELSE result
    /\ UNCHANGED << recVars, auditVars, resVars, keyVars, email, password >>

\* ------------------------------------------------------- API keys manager
\* the latest time the clock reaches
MaxNow == 3

\* the results of Math.random().toString(36).substring(7) the model draws from
RandomSuffixes == { "x7k2p", "q0m9z" }

\* the keys the component starts with
initialKeys ==
    << [id |-> << "key_", 1 >>, name |-> "Prod CI/CD", prefix |-> << "pk_live_", "..." >>],
       [id |-> << "key_", 2 >>, name |-> "Dev Local", prefix |-> << "pk_test_", "..." >>] >>

\* handleGenerate up to its await (the button is disabled while
\* isGenerating); the continuation keeps the keys of this render
GenerateStart ==
    /\ ~isGenerating
    /\ now < MaxNow
    /\ isGenerating' = TRUE
    /\ generateTimers' = Append(generateTimers, [keys |-> keys])
    /\ UNCHANGED << recVars, auditVars, resVars, authVars, keys, now >>

\* [newKey, ...keys] with the keys the continuation closed over
GeneratedKeys(closed, newKey) == << newKey >> \o closed

\* handleGenerate after its 800 ms await; the clock has advanced, and
\* Date.now() is far above the numbers of the initial keys
GenerateDone ==
    /\ generateTimers # << >>
    /\ \E t \in (now + 1) .. MaxNow, suffix \in RandomSuffixes :
          LET newKey == [id |-> << "key_", 1000 + t >>, name |-> "New API Key",
                         prefix |-> << "pk_test_", suffix >>]
          IN /\ now' = t
             /\ keys' = GeneratedKeys(Head(generateTimers).keys, newKey)
    /\ generateTimers' = Tail(generateTimers)
    /\ isGenerating' = FALSE
    /\ UNCHANGED << recVars, auditVars, resVars, authVars >>

\* keys.filter(k => k.id !== id)
RECURSIVE RemoveKey(_, _)
RemoveKey(list, id) ==
    IF list = << >> THEN << >>
    ELSE IF Head(list).id # id THEN << Head(list) >> \o RemoveKey(Tail(list), id)
         ELSE RemoveKey(Tail(list), id)

\* handleRevoke(id) from the revoke button of a listed key, the confirm
\* dialog answered with ok or cancel
handleRevoke(id, ok) ==
    /\ \E i \in DOMAIN keys : keys[i].id = id
    /\ keys' = IF ok THEN RemoveKey(keys, id) ELSE keys
    /\ UNCHANGED << recVars, auditVars, resVars, authVars, isGenerating,
                    generateTimers, now >>

\* the ids a key can have
KeyIds == { << "key_", n >> : n \in {1, 2} \cup { 1000 + t : t \in 1 .. MaxNow } }

\* ------------------------------------------------------------------ Init
mockAuditRecommendations ==
    << [id |-> "rec_1", severity |-> "critical", monthly_savings |-> 250,
        risk |-> "Low", resource_id |-> "old-database"],
       [id |-> "rec_2", severity |-> "high", monthly_savings |-> 120,
        risk |-> "Medium", resource_id |-> "dev-server"],
       [id |-> "rec_3", severity |-> "high", monthly_savings |-> 15,
        risk |-> "Low", resource_id |-> "ip-35-2-1-4"] >>

\* the state after the first render, MOCK_RESOURCES generated with one of the
\* given outcomes of Math.random
InitWith(seeds) ==
    /\ recommendations = initialRecommendations
    /\ appliedItems = initialApplied
    /\ isRefreshing = FALSE
    /\ filterStatus = "all"
    /\ filterSeverity = "all"
    /\ sortBy = "savings-desc"
    /\ isApplying = [id \in RecIds |-> FALSE]
    /\ applyTimers = << >>
    /\ today = StartDay
    /\ status = [id \in Ids(mockAuditRecommendations) |-> "pending"]
    /\ auditIsRefreshing = FALSE
    /\ alerts = << >>
    /\ data = "null"
    /\ loading = TRUE
    /\ dashIsRefreshing = FALSE
    /\ fetching = 0
    /\ effectRan = FALSE
    /\ MOCK_RESOURCES \in {generateMockResources(ResourceCount, seed) : seed \in seeds}
    /\ searchTerm = << >>
    /\ typeFilter = All
    /\ statusFilter = All
    /\ sortConfig = [key |-> "name", direction |-> "asc"]
    /\ currentPage = 1
    /\ email = ""
    /\ password = ""
    /\ isLoading = FALSE
    /\ error = ""
    /\ signInTimers = << >>
    /\ consoleLog = << >>
    /\ keys = initialKeys
    /\ isGenerating = FALSE
    /\ generateTimers = << >>
    /\ now = 0

Init == InitWith({0})

Next ==
    \/ \E id \in RecIds : ClickApply(id)
    \/ ApplyTimerFire
    \/ HandleRefreshStart
    \/ HandleRefreshDone
    \/ \E v \in RiskOptions : SetFilterSeverity(v)
    \/ \E v \in StatusOptions : SetFilterStatus(v)
    \/ \E v \in SortOptions : SetSortBy(v)
    \/ NextDay

Spec == Init /\ [][Next]_vars

\* the Audit Results page and the dashboard
NextAudit ==
    \/ \E id \in Ids(mockAuditRecommendations) : ApplyItem(id)
    \/ \E id \in Ids(mockAuditRecommendations) : DismissItem(id)
    \/ AuditRefreshStart
    \/ AuditRefreshDone
    \/ HandleNewAudit
    \/ MountEffect
    \/ ClickRefresh
    \/ FetchDone
    \/ HandleRunAudit

SpecAudit == Init /\ [][NextAudit]_vars

\* the same pages with their timers firing: the mount effect runs after the
\* first render and a setTimeout that was set fires
SpecAuditFair ==
    /\ Init /\ [][NextAudit]_vars
    /\ WF_vars(MountEffect) /\ WF_vars(FetchDone) /\ WF_vars(AuditRefreshDone)

\* the Resources page
NextResources ==
    \/ \E v \in SearchTerms : SetSearchTerm(v)
    \/ \E v \in {All} \cup {types[i] : i \in DOMAIN types} : SetTypeFilter(v)
    \/ \E v \in {All} \cup {statuses[i] : i \in DOMAIN statuses} : SetStatusFilter(v)
    \/ \E i \in DOMAIN Headers : ClickHeader(Headers[i])
    \/ PrevPage
    \/ NextPage

SpecResources == InitWith(Seeds) /\ [][NextResources]_vars

\* the API keys manager
NextApiKeys ==
    \/ GenerateStart
    \/ GenerateDone
    \/ \E id \in KeyIds, ok \in BOOLEAN : handleRevoke(id, ok)

SpecApiKeys == Init /\ [][NextApiKeys]_vars

\* the login page
NextAuth ==
    \/ \E v \in Emails : SetEmail(v)
    \/ \E v \in Passwords : SetPassword(v)
    \/ handleEmailSignIn
    \/ SignInTimerFire

\* a timer that was set fires
SpecAuth == Init /\ [][NextAuth]_vars /\ WF_vars(SignInTimerFire)

\* ---------------------------------------------------------- AppliedLog
\* the rows AppliedLog renders: "Projected Savings" and "Actual Savings" are
\* both item.savings
AppliedLogRows ==
    [i \in DOMAIN appliedItems |->
        [id |-> appliedItems[i].id,
         appliedDate |-> appliedItems[i].appliedDate,
         projectedSavings |-> appliedItems[i].savings,
         actualSavings |-> appliedItems[i].savings]]

\* ------------------------------------------------------------- properties
\* number of entries of the applied list for one recommendation
AppliedCount(id) == Cardinality({ i \in DOMAIN appliedItems : appliedItems[i].id = id })

\* C1 (as claimed): however often handleApply is called for a recommendation,
\* the applied list holds at most one entry for it.
C1_IdempotentApply == \A id \in RecIds : AppliedCount(id) <= 1

StartedAudits ==
    { i \in DOMAIN alerts :
        alerts[i] \in { "Audit has been successfully triggered! Results will appear soon.",
                        "Starting new audit scan..." } }

\* C3 (as claimed): of the audit triggers issued while a run is active (no run
\* ever ends in the code) at most one is reported as started; the others are
\* answered with AuditAlreadyRunningError.
C3_SingleActiveRun == Cardinality(StartedAudits) <= 1

\* C4 (as claimed): when a refresh of the recommendations completes there is
\* still one recommendation per id, no row was added, and every row carries
\* a last_seen_at advanced to the day of the refresh.
C4_NoDuplicateRecommendations ==
    [][(isRefreshing /\ ~isRefreshing') =>
          /\ Len(recommendations') = Len(recommendations)
          /\ Cardinality(Ids(recommendations')) = Len(recommendations')
          /\ \A i \in DOMAIN recommendations' :
                /\ "last_seen_at" \in DOMAIN recommendations'[i]
                /\ recommendations'[i].last_seen_at = today']_vars

\* C5 (as claimed): an apply commits (adds its entry to the applied list) only
\* if the recommendation is still pending when it commits; the loser of two
\* applies of one recommendation commits nothing.
C5_LostUpdatePrevention ==
    [][Len(appliedItems') > Len(appliedItems) =>
          appliedItems'[1].id \in Ids(recommendations)]_vars

\* position of an id in the initial list (rec_1 < rec_2 < ...)
IdRank(id) == CHOOSE i \in DOMAIN initialRecommendations : initialRecommendations[i].id = id

\* a ranks before b: higher severity (the page's risk), then higher savings,
\* then smaller id
RanksBefore(a, b) ==
    \/ riskOrder(a.risk) > riskOrder(b.risk)
    \/ riskOrder(a.risk) = riskOrder(b.risk) /\ a.savings > b.savings
    \/ riskOrder(a.risk) = riskOrder(b.risk) /\ a.savings = b.savings
       /\ IdRank(a.id) < IdRank(b.id)

PendingPos(id) == CHOOSE i \in DOMAIN recommendations : recommendations[i].id = id

\* a and b are in the order the selected sort key asks for
InKeyOrder(a, b) ==
    CASE sortBy = "savings-desc" -> a.savings >= b.savings
      [] sortBy = "savings-asc"  -> a.savings =< b.savings
      [] sortBy = "risk-desc"    -> riskOrder(a.risk) >= riskOrder(b.risk)
      [] sortBy = "risk-asc"     -> riskOrder(a.risk) =< riskOrder(b.risk)

\* a and b have the same value of the selected sort key
SameKey(a, b) == InKeyOrder(a, b) /\ InKeyOrder(b, a)

C8_ApplyFreezesPrediction ==
    [][/\ Len(appliedItems') \in { Len(appliedItems), Len(appliedItems) + 1 }
       /\ SubSeq(appliedItems', Len(appliedItems') - Len(appliedItems) + 1,
                 Len(appliedItems')) = appliedItems
       /\ recommendations' # recommendations => Len(appliedItems') = Len(appliedItems) + 1
       /\ \A id \in Ids(recommendations) \ Ids(recommendations') :
             /\ appliedItems'[1].id = id
             /\ appliedItems'[1].savings = recommendations[PendingPos(id)].savings
             /\ appliedItems'[1].appliedDate = FormatDate(today)]_vars

\* C8 witness: an entry applied on an earlier day, followed by a later apply,
\* seen under another sort order
C8_Witness ==
    /\ today > StartDay
    /\ sortBy # "savings-desc"
    /\ \E i \in 2..Len(appliedItems) :
          /\ appliedItems[i].id \in RecIds
          /\ appliedItems[i].appliedDate = FormatDate(StartDay)
          /\ appliedItems[1].appliedDate = FormatDate(today)

\* C9 (as claimed): AppliedLog shows no actual-savings figure for an entry
\* created by apply until seven days after its applied date.
C9_ActualOnlyAfterReconcile ==
    \A i \in DOMAIN AppliedLogRows :
        (AppliedLogRows[i].id \in RecIds /\ today - AppliedLogRows[i].appliedDate[2] < 7)
            => AppliedLogRows[i].actualSavings \notin Nat

DashboardAuditStarted ==
    \E i \in DOMAIN alerts :
        alerts[i] = "Audit has been successfully triggered! Results will appear soon."

\* the dashboard shows a run besides those of the mock data, or another
\* last_audit
RunRecorded ==
    /\ data # "null"
    /\ \/ DataShown.last_audit # initialMockData.last_audit
       \/ \E i \in DOMAIN DataShown.recent_audits :
             \A k \in DOMAIN initialMockData.recent_audits :
                 DataShown.recent_audits[i] # initialMockData.recent_audits[k]

\* C11 (as claimed): an audit that has started holds the lease until it ends,
\* and it does end on every path: it is eventually recorded with a final
\* status and completion time, after which a new audit can start.
C11_LeaseReleasedWhenRunEnds == DashboardAuditStarted ~> RunRecorded

\* C12: a refresh of the recommendations page neither blocks nor undoes
\* anything.  Starting or ending it changes neither list nor the cards; while
\* it is in progress the cards listed are those of the pending
\* recommendations that pass the risk filter, the Apply button of each is
\* offered unless that card is itself applying, and an apply that completes
\* takes effect (the recommendation leaves the pending list and is in the
\* applied list) with the refresh still in progress.
C12_ActionableDuringRefresh ==
    [][ /\ isRefreshing' # isRefreshing =>
            /\ recommendations' = recommendations
            /\ appliedItems' = appliedItems
            /\ isApplying' = isApplying
            /\ applyTimers' = applyTimers
        /\ isRefreshing =>
            /\ DOMAIN isApplying =
                  { id \in Ids(recommendations) :
                      filterSeverity \in {"all", Find(recommendations, id).risk} }
            /\ \A id \in DOMAIN isApplying : ApplyOffered(id) <=> ~isApplying[id]
            /\ Len(applyTimers') < Len(applyTimers) =>
                  /\ isRefreshing'
                  /\ Head(applyTimers).id \notin Ids(recommendations')
                  /\ Found(appliedItems', Head(applyTimers).id)
                  /\ Len(appliedItems') >= Len(appliedItems)
      ]_vars

\* C12 witness: during a refresh one recommendation has been applied, another
\* apply is waiting and a third card still offers its Apply button
C12_Witness ==
    /\ isRefreshing
    /\ Len(appliedItems) > Len(initialApplied)
    /\ applyTimers # << >>
    /\ \E id \in DOMAIN isApplying : ApplyOffered(id)

\* C14 (as claimed): a pending recommendation that no audit detects again (no
\* handler of the page fetches or re-detects anything) does not stay pending
\* for ever: unless the user applies or dismisses it first, it eventually
\* becomes expired without user action.
C14_PendingEventuallyExpires ==
    \A id \in Ids(mockAuditRecommendations) :
        (status[id] = "pending") ~> (status[id] \in {"expired", "applied", "dismissed"})

\* the recommendations of the audit for a resource
RecommendationsFor(resource) ==
    { i \in DOMAIN mockAuditRecommendations :
        mockAuditRecommendations[i].resource_id = resource }

\* C15 (as claimed): the audit has exactly one recommendation for
\* old-database, it is critical, of Low risk and Easy difficulty with monthly
\* savings 250, and the step that applies it records an applied action at the
\* head of the applied log with projected savings 250 and actual savings
\* within 10% of 250.
C15_OldDatabaseEndToEnd ==
    [][ \A i \in RecommendationsFor("old-database") :
          LET rec == mockAuditRecommendations[i]
          IN (status[rec.id] = "pending" /\ status'[rec.id] = "applied") =>
                /\ Cardinality(RecommendationsFor("old-database")) = 1
                /\ rec.severity = "critical"
                /\ rec.risk = "Low"
                /\ rec.monthly_savings = 250
                /\ "difficulty" \in DOMAIN rec
                /\ rec.difficulty = "Easy"
                /\ Len(appliedItems') = Len(appliedItems) + 1
                /\ AppliedLogRows'[1].projectedSavings = 250
                /\ 10 * AppliedLogRows'[1].actualSavings >= 9 * 250
                /\ 10 * AppliedLogRows'[1].actualSavings <= 11 * 250
      ]_vars

\* the recommendations still pending: those of the start that no entry of the
\* applied list stands for
PendingIds == RecIds \ Ids(appliedItems)

\* the sum of the savings of the initial recommendations with an id in ids
RECURSIVE SavingsAmong(_, _)
SavingsAmong(ids, n) ==
    IF n = 0 THEN 0
    ELSE SavingsAmong(ids, n - 1)
         + (IF initialRecommendations[n].id \in ids
            THEN initialRecommendations[n].savings ELSE 0)

\* C16: the summary cards show the sum of the savings of exactly the pending
\* recommendations, the number of pending recommendations and the number of
\* entries of the applied list.
C16_StatsTrackLists ==
    /\ Ids(recommendations) = PendingIds
    /\ Len(recommendations) = Cardinality(PendingIds)
    /\ SummaryStats.TotalPotentialSavings =
          << "$", SavingsAmong(PendingIds, Len(initialRecommendations)), "/mo" >>
    /\ SummaryStats.PendingActions = << Cardinality(PendingIds), " actions" >>
    /\ SummaryStats.CompletedActions = << Len(appliedItems), " actions" >>

\* C16 witness: two recommendations have been applied
C16_Witness ==
    /\ Cardinality(PendingIds) = Cardinality(RecIds) - 2
    /\ Len(appliedItems) >= Len(initialApplied) + 2
    /\ stats.totalSavings < SumSavings(initialRecommendations)

\* the status of a recommendation of the page: applied once an entry of the
\* applied list stands for it, pending while it is in the pending list
StatusOf(id) == IF id \in Ids(appliedItems) THEN "applied" ELSE "pending"

\* C17 (as claimed): the Action Items list shows exactly the recommendations
\* whose status is the one chosen in the status filter and whose severity
\* (the page's risk) is the one chosen in the severity filter, "all" standing
\* for every status and every severity.
C17_FiltersRestrictListing ==
    Ids(filteredRecommendations) =
        { id \in RecIds :
            /\ filterStatus \in {"all", StatusOf(id)}
            /\ filterSeverity \in {"all", Find(initialRecommendations, id).risk} }

\* the p-th chunk of 20 of a list
Chunk(list, p) ==
    SubSeq(list, (p - 1) * 20 + 1, IF p * 20 < Len(list) THEN p * 20 ELSE Len(list))

\* C18 (as claimed): pages 1..totalPages are the consecutive chunks of at
\* most 20 of the filtered, sorted list, each non-empty and together the
\* whole list, and the page displayed is one of those chunks whenever the
\* filtered list is not empty.
C18_PaginationShowsAChunk ==
    LET filtered == filteredResources
        sorted == sortedResources
        pages == TotalPagesOf(sorted)
    IN /\ \A p \in 1 .. pages : Len(Chunk(sorted, p)) \in 1 .. 20
       /\ Len(sorted) <= 20 * pages
       /\ { sorted[i].id : i \in DOMAIN sorted } = { filtered[i].id : i \in DOMAIN filtered }
       /\ Len(sorted) = Len(filtered)
       /\ filtered # << >> =>
             /\ currentPage \in 1 .. pages
             /\ paginatedResources = Chunk(sorted, currentPage)
             /\ paginatedResources # << >>

\* the value a row shows in the column of a sort key: the Utilization
\* column shows cpu_utilization
ColumnValue(resource, key) ==
    IF key = "utilization" THEN resource.cpu_utilization ELSE resource[key]

\* v < w for two values of a column
ValueLess(v, w, key) ==
    IF key \in {"cost", "utilization"} THEN v < w ELSE StringLess(v, w)

\* the rows listed are the filtered rows, in the order of the selected
\* column and direction
OrderedBySelectedColumn ==
    LET sorted == sortedResources
        filtered == filteredResources
        key == sortConfig.key
    IN /\ Len(sorted) = Len(filtered)
       /\ { sorted[i].id : i \in DOMAIN sorted } = { filtered[i].id : i \in DOMAIN filtered }
       /\ \A i \in 1 .. (Len(sorted) - 1) :
             LET v == ColumnValue(sorted[i], key)
                 w == ColumnValue(sorted[i + 1], key)
             IN IF sortConfig.direction = "asc" THEN ~ValueLess(w, v, key)
                ELSE ~ValueLess(v, w, key)

\* C19 (as claimed): a click on a column header selects that column,
\* ascending unless the column was already selected ascending and then
\* descending, and the rows listed are always the filtered rows ordered by
\* the selected column's value in the selected direction.
C19_SortByAnyColumn ==
    /\ []OrderedBySelectedColumn
    /\ [][ sortConfig' # sortConfig =>
             sortConfig'.direction =
                 (IF sortConfig'.key = sortConfig.key /\ sortConfig.direction = "asc"
                  THEN "desc" ELSE "asc") ]_vars

\* C20: a submit with an empty email or password sets an error at once and
\* starts no attempt; an attempt starts only with both filled, one at a
\* time; the attempt ends with isLoading false, with a non-empty error when
\* the submitted password was wrong and with no error when it was right;
\* and every attempt does end.
C20_LoginFailureIsReported ==
    /\ [][
          /\ (handleEmailSignIn /\ (email = "" \/ password = "")) =>
                /\ error' # ""
                /\ isLoading' = isLoading
                /\ signInTimers' = signInTimers
          /\ Len(signInTimers') > Len(signInTimers) =>
                /\ email # "" /\ password # ""
                /\ signInTimers = << >>
                /\ signInTimers' = << [email |-> email, password |-> password] >>
                /\ isLoading' /\ error' = ""
          /\ Len(signInTimers') < Len(signInTimers) =>
                /\ ~isLoading'
                /\ (Head(signInTimers).password # "password123" => error' # "")
                /\ (Head(signInTimers).password = "password123" => error' = "")
       ]_vars
    /\ \A n \in 0 .. MaxSignIns :
          (isLoading /\ Len(consoleLog) = n) ~> (~isLoading /\ Len(consoleLog) = n + 1)

\* C20 witness: an attempt with the right password has ended without error
\* and a later one with a wrong password has ended with the error shown
C20_Witness ==
    /\ ~isLoading
    /\ Len(consoleLog) = 2
    /\ consoleLog[1].attempt.password = "password123"
    /\ consoleLog[2].attempt.password \notin {"", "password123"}
    /\ error = "Invalid credentials. Please try again."

\* the dashboard has loaded: data is set and neither loading nor isRefreshing
DashboardLoaded == data # "null" /\ ~loading /\ ~dashIsRefreshing

\* C21: the mount effect starts a fetch, and every fetch, that of the mount
\* and that of each refresh click, eventually completes with data set and
\* loading and isRefreshing false; a refresh click starts exactly one fetch;
\* and the metric cards and audits table are never rendered while data is
\* null.
C21_DashboardLoads ==
    /\ [](CardsRendered => data # "null")
    /\ [][ fetching' > fetching =>
             /\ fetching = 0 /\ fetching' = 1
             /\ loading' /\ dashIsRefreshing' ]_vars
    /\ [][ fetching' < fetching => DashboardLoaded' ]_vars
    /\ (~effectRan) ~> (fetching > 0)
    /\ (fetching > 0) ~> DashboardLoaded

\* C21 witness: a refresh is in progress after the first load
C21_Witness ==
    /\ effectRan
    /\ data # "null"
    /\ fetching = 1 /\ loading /\ dashIsRefreshing

\* no id occurs twice in a list
NoRepeatedId(list) ==
    \A i, j \in DOMAIN list : list[i].id = list[j].id => i = j

\* C22 (as claimed): every recommendation id is in exactly one of the pending
\* list and the applied list, no id occurs twice in either list, and
\* pendingCount + completedCount keeps its initial value.
C22_PendingAppliedPartition ==
    /\ \A id \in RecIds : (id \in Ids(recommendations)) # (id \in Ids(appliedItems))
    /\ NoRepeatedId(recommendations)
    /\ NoRepeatedId(appliedItems)
    /\ stats.pendingCount + stats.completedCount
         = Len(initialRecommendations) + Len(initialApplied)

\* C23: when a delayed onApply runs, whatever applies have been clicked or
\* have run since its click (its handleApply holds the pending list of the
\* render of the click), it removes its recommendation and nothing else from
\* the current pending list, and adds its entry in front of the applied
\* list, every earlier entry kept; so once the calls of two overlapping
\* applies have run, both recommendations have left the pending list and
\* both are in the applied list.
C23_OverlappingAppliesLoseNothing ==
    [][ Len(applyTimers') < Len(applyTimers) =>
          LET id == Head(applyTimers).id
          IN /\ Ids(recommendations') = Ids(recommendations) \ {id}
             /\ Len(appliedItems') = Len(appliedItems) + 1
             /\ appliedItems'[1].id = id
             /\ \A i \in DOMAIN appliedItems : appliedItems'[i + 1] = appliedItems[i]
             /\ \A other \in RecIds :
                   (other \notin Ids(recommendations) /\ other # id) =>
                       /\ other \notin Ids(recommendations')
                       /\ Found(appliedItems', other)
      ]_vars

\* C23 witness: of two overlapping applies of different recommendations the
\* first call has run and the second is still waiting, with its older pending
\* list that still holds the first recommendation
C23_Witness ==
    /\ Len(applyTimers) = 1
    /\ \E first \in RecIds :
          /\ first # Head(applyTimers).id
          /\ Found(Head(applyTimers).snapshot, first)
          /\ first \notin Ids(recommendations)
          /\ appliedItems[1].id = first
    /\ Head(applyTimers).id \in Ids(recommendations)

\* C24 (as claimed): when a handleGenerate completes, a key that was in the
\* list when it started and has been revoked since is not in the list after
\* the completion either.
C24_RevokedKeyStaysRevoked ==
    [][ Len(generateTimers') < Len(generateTimers) =>
          \A i \in DOMAIN Head(generateTimers).keys :
              LET id == Head(generateTimers).keys[i].id
              IN (\A k \in DOMAIN keys : keys[k].id # id) =>
                     \A k \in DOMAIN keys' : keys'[k].id # id
      ]_vars

====
